---- MODULE Spec2Model ----
(***************************************************************************)
(* A model of oakink2_toolkit/dataset.py: the program dependency graph     *)
(* (PDG) construction of load_complex_task with the node contraction of    *)
(* fix_g_info, the task name maps, the lazy hydration of complex tasks,     *)
(* primitive tasks and affordances, and get_part_tree_root.                *)
(*                                                                         *)
(* Python dicts are modelled as sequences of [k, v] records with distinct  *)
(* keys (insertion order is kept, as in Python), lists as sequences, None  *)
(* as the empty tuple, and a raised exception as the pc value "error", as *)
(* NoRecord for a call that returns a record, or as a raised flag.         *)
(***************************************************************************)
EXTENDS Integers, Sequences, FiniteSets, TLC

\* ------------------------------------------------------------------ bounds
\* Largest number of nodes of a raw PDG file in the contraction specifications.
MaxNodes == 4
\* Largest number of edges of a raw PDG file in the contraction specifications.
MaxEdges == 3
\* Largest number of segments of a program in the loading specifications.
MaxTasks == 2
\* Largest number of nodes and of edges of a raw PDG file in SpecLoad.
MaxRawNodes == 2
MaxRawEdges == 1
\* Largest number of object and part ids of the affordance hierarchy.
MaxParts == 3
\* Largest mocap frame id of a sequence.
MaxFrame == 3
\* Largest length of an object list of a program item.
MaxObjs == 2

\* Python's None where a tuple or a list may stand: distinct from every range
\* (a, b); an optional list is None or Some(list).
None == <<>>
Some(x) == <<x>>

\* A record that is not there yet, or the result of a lookup that raised.
NoRecord == [absent |-> TRUE]

VARIABLES
    \* the files of one sequence, as load_complex_task reads them
    program_file,             \* program_info/<seq>.json: list of [k, v] items
    pdg_file,                 \* pdg/<seq>.json: [id_map, e]
    \* one call of load_complex_task
    pc,                       \* "start", "fix", "contract", "build", "done", "error"
    program_info,
    affordance_task_namemap,
    full_task_namemap,
    g_info,                   \* _g_info, mutated by fix_g_info
    node_to_contact,          \* the part of fix_g_info's worklist not yet processed
    task,                     \* res, the ComplexTask record (NoRecord before it is built)
    \* the affordance hierarchy, loaded by __init__
    part_tree,                \* object_part_tree.json: id -> list of part ids
    self_rev_part_tree,       \* self.rev_part_tree: part id -> parent id
    object_affordance,        \* object_affordance.json: id -> [has_model]
    unloadable,               \* the ids with no (single) model file: _load_obj raises
    \* one call of get_part_tree_root
    root_pc,                  \* "idle", "loop", "done"
    root_start,               \* the obj_id argument
    obj_id,                   \* the local obj_id
    hops,                     \* the parent links followed so far
    \* the affordance records of the caller and the mesh cache
    affs,                     \* record name -> OakInk2__Affordance
    obj_cache,                \* self.obj_cache
    load_log,                 \* the ids _load_obj returned a mesh for, in order
    \* the annotation of the sequence and the task records of the caller
    anno_file,                \* anno/<seq>.pkl: [mocap_frame_id_list, obj_list, side_cache]
    ctask,                    \* the caller's OakInk2__ComplexTask record
    ptasks,                   \* record name -> OakInk2__PrimitiveTask
    last_call                 \* the last operation called and its argument

loadVars == <<program_file, pdg_file, pc, program_info, affordance_task_namemap,
              full_task_namemap, g_info, node_to_contact, task>>
treeVars == <<part_tree, self_rev_part_tree, object_affordance, unloadable>>
rootVars == <<root_pc, root_start, obj_id, hops>>
affVars  == <<affs, obj_cache, load_log>>
hydVars  == <<anno_file, ctask, ptasks>>

vars == <<loadVars, treeVars, rootVars, affVars, hydVars, last_call>>

\* ------------------------------------------------------- dicts and lists
Range(s) == {s[i] : i \in 1..Len(s)}

DictKeys(d) == {d[i].k : i \in 1..Len(d)}

DictHas(d, key) == \E i \in 1..Len(d) : d[i].k = key

DictGet(d, key) == d[CHOOSE i \in 1..Len(d) : d[i].k = key].v

\* d[key] = val: an existing key keeps its position, a new key is appended.
DictSet(d, key, val) ==
    IF DictHas(d, key)
    THEN [i \in 1..Len(d) |-> IF d[i].k = key THEN [k |-> key, v |-> val] ELSE d[i]]
    ELSE Append(d, [k |-> key, v |-> val])

\* list(d.values())
DictValues(d) == [i \in 1..Len(d) |-> d[i].v]

\* list(d.keys())
DictKeyList(d) == [i \in 1..Len(d) |-> d[i].k]

\* The strictly increasing sequences of length m over lo..hi.
RECURSIVE IncSeqs(_, _, _)
IncSeqs(m, lo, hi) ==
    IF m = 0 THEN {<<>>}
    ELSE UNION {{<<x>> \o s : s \in IncSeqs(m - 1, x + 1, hi)} : x \in lo..hi}

\* ------------------------------------------------------ serialized keys
\* A FrameRangeDef key as it is written in a JSON file is a string.  The
\* string is modelled by the tuple it denotes (def) and by whether its text
\* is the one str() prints (canon): "((0,10),None)" and "((0, 10), None)"
\* denote the same tuple and are different dict keys.

\* ast.literal_eval(s)
literal_eval(s) == s.def

\* str(t) of a tuple
str(t) == [def |-> t, canon |-> TRUE]

\* standardize_tuple(t) = str(ast.literal_eval(t))
standardize_tuple(s) == str(literal_eval(s))

\* ------------------------------------------------------------ name maps
\* The primitive types of the program annotations.
AffordancePrimitives == {"pour", "cut"}
TransientPrimitives == {"transit"}
Primitives == AffordancePrimitives \cup TransientPrimitives

\* program.is_transient(primitive): the external primitive-type classifier.
is_transient(primitive) == primitive \in TransientPrimitives

\* A task identifier <task-name> (n = 0) or <task-name>#<n> (n > 0).
Ident(name, n) == [name |-> name, n |-> n]

\* The name map of the first m segments of program_info whose primitive is
\* (transient = TRUE) or is not (FALSE) transient: the n-th repetition of a
\* task name within the subset, in the order of the keys, gets suffix n.
RECURSIVE SuffixUpTo(_, _, _)
SuffixUpTo(pinfo, transient, m) ==
    IF m = 0 THEN <<>>
    ELSE LET prev == SuffixUpTo(pinfo, transient, m - 1)
             name == pinfo[m].v.primitive
             seen == Cardinality({j \in 1..Len(prev) : prev[j].v.name = name})
         IN  IF is_transient(name) = transient
             THEN Append(prev, [k |-> pinfo[m].k, v |-> Ident(name, seen)])
             ELSE prev

\* program.suffix_affordance_primitive_segment(program_info)
suffix_affordance_primitive_segment(pinfo) == SuffixUpTo(pinfo, FALSE, Len(pinfo))

\* program.suffix_transient_primitive_segment(program_info)
suffix_transient_primitive_segment(pinfo) == SuffixUpTo(pinfo, TRUE, Len(pinfo))

\* {standardize_tuple(k): v for k, v in items}: the first m items.
RECURSIVE StandardizeUpTo(_, _)
StandardizeUpTo(file, m) ==
    IF m = 0 THEN <<>>
    ELSE DictSet(StandardizeUpTo(file, m - 1), standardize_tuple(file[m].k), file[m].v)

\* load_program_info: the JSON file with every key standardized.
load_program_info(file) == StandardizeUpTo(file, Len(file))

\* {**a, **b}: a updated with the first m items of b.
RECURSIVE DictUpdate(_, _, _)
DictUpdate(a, b, m) ==
    IF m = 0 THEN a ELSE DictSet(DictUpdate(a, b, m - 1), b[m].k, b[m].v)

\* _full_task_namemap = {**affordance_task_namemap, **transient_task_namemap}
MergeNameMaps(aff, tra) == DictUpdate(aff, tra, Len(tra))

\* full_task_namemap: for k in program_info.keys(): full[k] = _full[k],
\* the first m keys.  A key missing from _full raises KeyError: NoRecord.
RECURSIVE ReorderUpTo(_, _, _)
ReorderUpTo(pinfo, merged, m) ==
    IF m = 0 THEN [map |-> <<>>]
    ELSE LET prev == ReorderUpTo(pinfo, merged, m - 1)
         IN  IF prev = NoRecord \/ ~DictHas(merged, pinfo[m].k) THEN NoRecord
             ELSE [map |-> DictSet(prev.map, pinfo[m].k, DictGet(merged, pinfo[m].k))]

\* The merged map taken as it is, without the reordering loop.
ReorderNameMap_Skipped(pinfo, merged) == [map |-> merged]

ReorderNameMap(pinfo, merged) == ReorderUpTo(pinfo, merged, Len(pinfo))

\* rev_full_task_namemap = {v: ast.literal_eval(k) for k, v in full.items()}
RECURSIVE RevUpTo(_, _)
RevUpTo(full, m) ==
    IF m = 0 THEN <<>>
    ELSE DictSet(RevUpTo(full, m - 1), full[m].v, literal_eval(full[m].k))

RevNameMap(full) == RevUpTo(full, Len(full))

\* ------------------------------------------------------ node contraction
\* node_to_contact: the standardized keys of g_info["id_map"], in id_map
\* order, that are not keys of the name map (first m keys).
RECURSIVE ScanUpTo(_, _, _)
ScanUpTo(id_map, namemap, m) ==
    IF m = 0 THEN <<>>
    ELSE LET prev == ScanUpTo(id_map, namemap, m - 1)
             key == standardize_tuple(id_map[m].k)
         IN  IF ~DictHas(namemap, key) THEN Append(prev, key) ELSE prev

NodesToContract(g, namemap) == ScanUpTo(g.id_map, namemap, Len(g.id_map))

\* The edges (e[0], e2[1]) for e in in_edges for e2 in out_edges, in the
\* order the nested loops append them.
Bridges(in_edges, out_edges) ==
    [i \in 1..(Len(in_edges) * Len(out_edges)) |->
        <<in_edges[((i - 1) \div Len(out_edges)) + 1][1],
          out_edges[((i - 1) % Len(out_edges)) + 1][2]>>]

\* A contraction that deletes the node and its edges and adds no bridge.
ContractNode_NoBridge(g, node) ==
    LET node_id == DictGet(g.id_map, node)
    IN  [id_map |-> SelectSeq(g.id_map, LAMBDA kv : kv.k # node),
         e      |-> SelectSeq(g.e, LAMBDA e : e[1] # node_id /\ e[2] # node_id)]

\* A contraction that bridges every in-edge to the last out-edge only.
ContractNode_LastOut(g, node) ==
    LET node_id   == DictGet(g.id_map, node)
        in_edges  == SelectSeq(g.e, LAMBDA e : e[2] = node_id)
        out_edges == SelectSeq(g.e, LAMBDA e : e[1] = node_id)
        appended  == g.e \o Bridges(in_edges, (IF out_edges = <<>> THEN <<>> ELSE <<out_edges[Len(out_edges)]>>))
    IN  [id_map |-> SelectSeq(g.id_map, LAMBDA kv : kv.k # node),
         e      |-> SelectSeq(appended, LAMBDA e : e[1] # node_id /\ e[2] # node_id)]

\* One iteration of the contraction loop of fix_g_info, for a node that is
\* a key of g["id_map"].
ContractNode(g, node) ==
    LET node_id   == DictGet(g.id_map, node)
        in_edges  == SelectSeq(g.e, LAMBDA e : e[2] = node_id)
        out_edges == SelectSeq(g.e, LAMBDA e : e[1] = node_id)
        appended  == g.e \o Bridges(in_edges, out_edges)
    IN  [id_map |-> SelectSeq(g.id_map, LAMBDA kv : kv.k # node),
         e      |-> SelectSeq(appended, LAMBDA e : e[1] # node_id /\ e[2] # node_id)]

\* A graph built from the edges alone, without the add_node loop.
BuildPdg_EdgesOnly(g, namemap) ==
    LET rev(id) == (CHOOSE kv \in Range(g.id_map) : kv.v = id).k
        name(key) == DictGet(namemap, standardize_tuple(key))
        edges == {<<name(rev(g.e[i][1])), name(rev(g.e[i][2]))>> : i \in 1..Len(g.e)}
    IN  IF \E i \in 1..Len(g.id_map) :
              ~DictHas(namemap, standardize_tuple(g.id_map[i].k))
        THEN NoRecord
        ELSE [nodes |-> {e[1] : e \in edges} \cup {e[2] : e \in edges}, edges |-> edges]

\* The graph load_complex_task builds from the fixed g_info: a node per
\* id_map key, an edge per g_info["e"] entry, both translated through the
\* name map.  NoRecord when a lookup raises KeyError.
BuildPdg(g, namemap) ==
    LET ids == {g.id_map[i].v : i \in 1..Len(g.id_map)}
        \* _rev_id_map = {v: k for k, v in id_map.items()}: the last key wins
        rev(id) == g.id_map[CHOOSE i \in 1..Len(g.id_map) :
                        /\ g.id_map[i].v = id
                        /\ \A j \in (i + 1)..Len(g.id_map) : g.id_map[j].v # id].k
        name(key) == DictGet(namemap, standardize_tuple(key))
    IN  IF \/ \E i \in 1..Len(g.id_map) :
                 ~DictHas(namemap, standardize_tuple(g.id_map[i].k))
           \/ \E i \in 1..Len(g.e) : g.e[i][1] \notin ids \/ g.e[i][2] \notin ids
        THEN NoRecord
        ELSE LET added == {name(g.id_map[i].k) : i \in 1..Len(g.id_map)}
                 edges == {<<name(rev(g.e[i][1])), name(rev(g.e[i][2]))>> :
                              i \in 1..Len(g.e)}
             IN  [nodes |-> added \cup {e[1] : e \in edges} \cup {e[2] : e \in edges},
                  edges |-> edges]

\* -------------------------------------------------- load_complex_task
\* A program item: the value of one program_info key.
ProgramItem(primitive, obj_list, obj_list_lh, obj_list_rh) ==
    [primitive |-> primitive, interaction_mode |-> "mode",
     obj_list |-> obj_list, obj_list_lh |-> obj_list_lh, obj_list_rh |-> obj_list_rh]

\* load_complex_task up to the name maps and the paths derived from them.
LoadNameMaps ==
    /\ pc = "start"
    /\ LET pinfo  == load_program_info(program_file)
           aff    == suffix_affordance_primitive_segment(pinfo)
           tra    == suffix_transient_primitive_segment(pinfo)
           full   == ReorderNameMap(pinfo, MergeNameMaps(aff, tra))
       IN  /\ program_info' = pinfo
           /\ affordance_task_namemap' = aff
           /\ IF full = NoRecord
              THEN /\ pc' = "error"
                   /\ UNCHANGED <<full_task_namemap, task>>
              ELSE /\ pc' = "fix"
                   /\ full_task_namemap' = full.map
                   /\ task' = [is_complex           |-> Len(aff) > 0,
                               exec_path            |-> DictValues(full.map),
                               exec_path_affordance |-> DictValues(aff),
                               exec_range_map       |-> RevNameMap(full.map),
                               pdg                  |-> NoRecord]
    /\ UNCHANGED <<program_file, pdg_file, g_info, node_to_contact>>
    /\ UNCHANGED <<treeVars, rootVars, affVars, hydVars, last_call>>

\* json.load of the PDG file and the scan of fix_g_info for the nodes to
\* contract; with none, fix_g_info returns g_info as it is.
FixScan ==
    /\ pc = "fix"
    /\ g_info' = pdg_file
    /\ node_to_contact' = NodesToContract(pdg_file, affordance_task_namemap)
    /\ pc' = IF node_to_contact' = <<>> THEN "build" ELSE "contract"
    /\ UNCHANGED <<program_file, pdg_file, program_info, affordance_task_namemap,
                   full_task_namemap, task>>
    /\ UNCHANGED <<treeVars, rootVars, affVars, hydVars, last_call>>

\* One iteration of "for node in node_to_contact"; g_info["id_map"][node]
\* raises KeyError when the standardized key is no key of id_map.
ContractStep ==
    /\ pc = "contract"
    /\ LET node == Head(node_to_contact)
       IN  IF ~DictHas(g_info.id_map, node)
           THEN /\ pc' = "error"
                /\ UNCHANGED <<g_info, node_to_contact>>
           ELSE /\ g_info' = ContractNode(g_info, node)
                /\ node_to_contact' = Tail(node_to_contact)
                /\ pc' = IF node_to_contact' = <<>> THEN "build" ELSE "contract"
    /\ UNCHANGED <<program_file, pdg_file, program_info, affordance_task_namemap,
                   full_task_namemap, task>>
    /\ UNCHANGED <<treeVars, rootVars, affVars, hydVars, last_call>>

\* The nx.DiGraph built from the fixed g_info, stored in the record.
BuildGraph ==
    /\ pc = "build"
    /\ LET g == BuildPdg(g_info, affordance_task_namemap)
       IN  IF g = NoRecord
           THEN pc' = "error" /\ UNCHANGED task
           ELSE pc' = "done" /\ task' = [task EXCEPT !.pdg = g]
    /\ UNCHANGED <<program_file, pdg_file, program_info, affordance_task_namemap,
                   full_task_namemap, g_info, node_to_contact>>
    /\ UNCHANGED <<treeVars, rootVars, affVars, hydVars, last_call>>

LoadNext == LoadNameMaps \/ FixScan \/ ContractStep \/ BuildGraph

\* No annotation read and no task record held by the caller.
NoTasks ==
    /\ anno_file = NoRecord
    /\ ctask = NoRecord
    /\ ptasks = <<>>

\* A dataset with an empty affordance hierarchy and no affordance record.
NoAffordances ==
    /\ part_tree = <<>>
    /\ self_rev_part_tree = <<>>
    /\ object_affordance = <<>>
    /\ unloadable = {}
    /\ root_pc = "idle"
    /\ root_start = 0
    /\ obj_id = 0
    /\ hops = 0
    /\ affs = <<>>
    /\ obj_cache = <<>>
    /\ load_log = <<>>
    /\ last_call = [op |-> "none"]

\* The state before load_complex_task runs on the given files.
LoadInit(pfile, gfile) ==
    /\ NoAffordances
    /\ NoTasks
    /\ program_file = pfile
    /\ pdg_file = gfile
    /\ pc = "start"
    /\ program_info = <<>>
    /\ affordance_task_namemap = <<>>
    /\ full_task_namemap = <<>>
    /\ g_info = [id_map |-> <<>>, e |-> <<>>]
    /\ node_to_contact = <<>>
    /\ task = NoRecord

\* ---------------------------------------- the contraction specification
\* Raw graphs of up to MaxNodes nodes and MaxEdges edges.  Node i has id i
\* and the key of segment i; the edge list is in ascending order (no filter
\* of fix_g_info depends on the order of the list).  The segments of the
\* nodes in `valid` are the affordance-typed segments of the program.  Every
\* edge set over the nodes is drawn, so a renaming of the nodes maps each raw
\* graph to another one drawn: it is enough that the valid nodes are the
\* first nv ones, the invalid nodes following in worklist order.
SegDef(i) == <<<<i, i + 1>>, None>>

PdgProgramFile(n, valid) ==
    LET ids == SelectSeq([i \in 1..n |-> i], LAMBDA i : i \in valid)
    IN  [j \in 1..Len(ids) |->
            [k |-> str(SegDef(ids[j])), v |-> ProgramItem("pour", <<>>, None, None)]]

PdgFile(n, codes) ==
    [id_map |-> [i \in 1..n |-> [k |-> str(SegDef(i)), v |-> i]],
     e      |-> [j \in 1..Len(codes) |-> <<(codes[j] \div n) + 1, (codes[j] % n) + 1>>]]

InitPDG ==
    \E n \in 0..MaxNodes : \E nv \in 0..n : \E m \in 0..MaxEdges :
        \E codes \in IncSeqs(m, 0, n * n - 1) :
            LoadInit(PdgProgramFile(n, 1..nv), PdgFile(n, codes))

SpecPDG == InitPDG /\ [][LoadNext]_vars

\* The ids of the raw nodes whose standardized key is in the name map.
ValidIds ==
    {pdg_file.id_map[i].v : i \in {j \in 1..Len(pdg_file.id_map) :
        DictHas(affordance_task_namemap, standardize_tuple(pdg_file.id_map[j].k))}}

RawIds == {pdg_file.id_map[i].v : i \in 1..Len(pdg_file.id_map)}

\* The nodes that end a non-empty path over the edges `raw` that starts in
\* `reached` or continues from a node of `reached` outside `valid`, after k
\* more rounds.
RECURSIVE ReachVia(_, _, _, _)
ReachVia(reached, raw, valid, k) ==
    IF k = 0 THEN reached
    ELSE ReachVia(reached \cup {e[2] : e \in {x \in raw : x[1] \in reached \ valid}},
                  raw, valid, k - 1)

\* The nodes v that end a non-empty raw path from u whose intermediate nodes
\* are all invalid.
BridgedInRaw(u, raw, valid, n) ==
    ReachVia({e[2] : e \in {x \in raw : x[1] = u}}, raw, valid, n)

WorklistEmptied == pc \in {"build", "done"}

\* C2: after the worklist of fix_g_info empties, the surviving nodes are the
\* valid ones, no edge touches a removed node, and for surviving u, v the edge
\* (u, v) is present iff the raw graph has a non-empty path from u to v whose
\* intermediate nodes are all invalid.
C2_ContractionPreservesPrecedence ==
    WorklistEmptied =>
        LET valid == ValidIds
            raw   == Range(pdg_file.e)
            fixed == Range(g_info.e)
            n     == Len(pdg_file.id_map)
        IN  /\ {g_info.id_map[i].v : i \in 1..Len(g_info.id_map)} = valid
            /\ \A e \in fixed : e[1] \in valid /\ e[2] \in valid
            /\ \A u \in valid :
                  {v \in valid : <<u, v>> \in fixed}
                      = BridgedInRaw(u, raw, valid, n) \cap valid

\* A chain A -> X1 -> X2 -> B with X1, X2 invalid was contracted to A -> B.
C2_Witness ==
    /\ pc = "done"
    /\ \E a \in ValidIds : \E b \in ValidIds \ {a} :
       \E x1 \in RawIds \ ValidIds : \E x2 \in RawIds \ (ValidIds \cup {x1}) :
          /\ Range(pdg_file.e) = {<<a, x1>>, <<x1, x2>>, <<x2, b>>}
          /\ Range(g_info.e) = {<<a, b>>}

\* ------------------------------------------- the loading specifications
\* The key strings of the first n segments, in str() form or not.
RawKeys(n) == {[def |-> SegDef(i), canon |-> c] : i \in 1..n, c \in BOOLEAN}

\* The sequences of m distinct elements of S.
DistinctSeqs(S, m) ==
    {s \in [1..m -> S] : \A i \in 1..m : \A j \in (i + 1)..m : s[i] # s[j]}

\* SpecNameMap: any program file of up to MaxTasks items (distinct key
\* strings in any order and form, any primitives), and a PDG file of at most
\* one node.
InitNameMap ==
    \E len \in 0..MaxTasks : \E keys \in DistinctSeqs(RawKeys(MaxTasks), len) :
    \E prims \in [1..len -> Primitives] : \E n \in 0..1 : \E m \in 0..n :
        LoadInit([i \in 1..len |->
                     [k |-> keys[i], v |-> ProgramItem(prims[i], <<>>, None, None)]],
                 PdgFile(n, [j \in 1..m |-> 0]))

SpecNameMap == InitNameMap /\ [][LoadNext]_vars

\* SpecLoad: any raw PDG of up to MaxRawNodes nodes (distinct key strings in
\* any form) and MaxRawEdges edges, with a program in which each of the
\* MaxTasks segments is absent, affordance-typed or transient.
LoadProgramFile(kind) ==
    LET ids == SelectSeq([i \in 1..MaxTasks |-> i], LAMBDA i : kind[i] # "absent")
    IN  [j \in 1..Len(ids) |->
            [k |-> str(SegDef(ids[j])),
             v |-> ProgramItem(kind[ids[j]], <<>>, None, None)]]

InitLoad ==
    \E n \in 0..MaxRawNodes : \E keys \in DistinctSeqs(RawKeys(MaxTasks), n) :
    \E m \in 0..MaxRawEdges : \E codes \in IncSeqs(m, 0, n * n - 1) :
    \E kind \in [1..MaxTasks -> {"absent", "pour", "transit"}] :
        LoadInit(LoadProgramFile(kind),
                 [id_map |-> [i \in 1..n |-> [k |-> keys[i], v |-> i]],
                  e      |-> PdgFile(n, codes).e])

SpecLoad == InitLoad /\ [][LoadNext]_vars

\* The identifiers of a name map.
Idents(namemap) == Range(DictValues(namemap))

\* The standardized keys of the raw PDG file.
RawNodeKeys == {standardize_tuple(pdg_file.id_map[i].k) : i \in 1..Len(pdg_file.id_map)}

\* Some raw node key outside the affordance name map is not in str() form,
\* or standardizes to the same key as another raw node key.
UncontractableKey ==
    \E i \in 1..Len(pdg_file.id_map) :
        LET key == pdg_file.id_map[i].k
        IN  /\ ~DictHas(affordance_task_namemap, standardize_tuple(key))
            /\ \/ ~key.canon
               \/ \E j \in 1..Len(pdg_file.id_map) :
                     j # i /\ standardize_tuple(pdg_file.id_map[j].k) = standardize_tuple(key)

C8_NameMapBijection ==
    pc # "start" =>
        /\ DictKeyList(full_task_namemap) = DictKeyList(program_info)
        /\ \A i \in 1..Len(program_info) :
              LET key == program_info[i].k
                  tra == suffix_transient_primitive_segment(program_info)
              IN  /\ DictHas(affordance_task_namemap, key) # DictHas(tra, key)
                  /\ full_task_namemap[i].v =
                        IF DictHas(tra, key) THEN DictGet(tra, key)
                        ELSE DictGet(affordance_task_namemap, key)
        /\ \A i \in 1..Len(full_task_namemap) : \A j \in 1..Len(full_task_namemap) :
              full_task_namemap[i].v = full_task_namemap[j].v => i = j
        /\ task.exec_path = DictValues(full_task_namemap)
        /\ Len(task.exec_range_map) = Len(program_info)
        /\ \A i \in 1..Len(program_info) :
              /\ DictHas(task.exec_range_map, task.exec_path[i])
              /\ DictGet(task.exec_range_map, task.exec_path[i])
                    = literal_eval(program_info[i].k)

\* The name maps were built for a program whose first segment is transient
\* and whose second is affordance-typed: the merge puts them in the other order.
C8_Witness ==
    /\ pc = "fix"
    /\ Len(program_info) >= 2
    /\ is_transient(program_info[1].v.primitive)
    /\ ~is_transient(program_info[2].v.primitive)
    /\ Len(task.exec_path) = Len(program_info)

\* ------------------------------------------------ the part tree and its root
\* rev_part_tree: res[part] = k for k, v in part_tree.items() for part in v,
\* the first m parts of the first n items.
RECURSIVE RevPartsUpTo(_, _, _)
RevPartsUpTo(ptree, n, m) ==
    IF m > 0 THEN DictSet(RevPartsUpTo(ptree, n, m - 1), ptree[n].v[m], ptree[n].k)
    ELSE IF n <= 1 THEN <<>>
    ELSE RevPartsUpTo(ptree, n - 1, Len(ptree[n - 1].v))

rev_part_tree(ptree) ==
    IF ptree = <<>> THEN <<>>
    ELSE RevPartsUpTo(ptree, Len(ptree), Len(ptree[Len(ptree)].v))

\* The object_part_tree.json of the ids 1..n in which the parts of id i are the
\* ids j with parent[j] = i, in ascending order; every id has an item.
PartTreeOf(n, parent) ==
    [i \in 1..n |->
        [k |-> i, v |-> SelectSeq([j \in 1..n |-> j], LAMBDA j : parent[j] = i)]]

\* The k-th ancestor of id i under parent (0: above a root).
RECURSIVE Up(_, _, _)
Up(parent, i, k) == IF k = 0 \/ i = 0 THEN i ELSE Up(parent, parent[i], k - 1)

\* The parent functions over 1..n without a cycle (0: no parent).
AcyclicParents(n) ==
    {parent \in [1..n -> 0..n] : \A i \in 1..n : Up(parent, i, n) = 0}

\* The dataset after __init__ with the given affordance hierarchy.
TreeInit(n, parent, has_model, bad) ==
    /\ part_tree = PartTreeOf(n, parent)
    /\ self_rev_part_tree = rev_part_tree(PartTreeOf(n, parent))
    /\ object_affordance = [i \in 1..n |-> [k |-> i, v |-> [has_model |-> has_model[i]]]]
    /\ unloadable = bad

\* No load_complex_task call.
NoLoad ==
    /\ program_file = <<>>
    /\ pdg_file = [id_map |-> <<>>, e |-> <<>>]
    /\ pc = "idle"
    /\ program_info = <<>>
    /\ affordance_task_namemap = <<>>
    /\ full_task_namemap = <<>>
    /\ g_info = [id_map |-> <<>>, e |-> <<>>]
    /\ node_to_contact = <<>>
    /\ task = NoRecord

\* get_part_tree_root(self.rev_part_tree, id) is called.
GetRootCall ==
    /\ root_pc \in {"idle", "done"}
    /\ \E id \in DictKeys(part_tree) :
          /\ root_start' = id
          /\ obj_id' = id
          /\ last_call' = [op |-> "get_part_tree_root", arg |-> id]
    /\ hops' = 0
    /\ root_pc' = "loop"
    /\ UNCHANGED <<loadVars, treeVars, affVars, hydVars>>

\* A single parent link followed, and then the return: an if for the while.
RootHop_Once ==
    /\ root_pc = "loop"
    /\ DictHas(self_rev_part_tree, obj_id)
    /\ obj_id' = DictGet(self_rev_part_tree, obj_id)
    /\ hops' = hops + 1
    /\ root_pc' = "done"
    /\ UNCHANGED <<loadVars, treeVars, affVars, hydVars, root_start, last_call>>

\* while obj_id in rev_part_tree: obj_id = rev_part_tree[obj_id]
RootHop ==
    /\ root_pc = "loop"
    /\ DictHas(self_rev_part_tree, obj_id)
    /\ obj_id' = DictGet(self_rev_part_tree, obj_id)
    /\ hops' = hops + 1
    /\ UNCHANGED <<loadVars, treeVars, affVars, hydVars, root_pc, root_start, last_call>>

\* return obj_id
RootReturn ==
    /\ root_pc = "loop"
    /\ ~DictHas(self_rev_part_tree, obj_id)
    /\ root_pc' = "done"
    /\ UNCHANGED <<loadVars, treeVars, affVars, hydVars, root_start, obj_id, hops, last_call>>

RootNext == GetRootCall \/ RootHop \/ RootReturn

NoAffordanceRecords ==
    /\ affs = <<>>
    /\ obj_cache = <<>>
    /\ load_log = <<>>
    /\ last_call = [op |-> "none"]

\* SpecRoot: every acyclic hierarchy of up to MaxParts ids.
InitRoot ==
    \E n \in 1..MaxParts : \E parent \in AcyclicParents(n) :
        /\ TreeInit(n, parent, [i \in 1..n |-> TRUE], {})
        /\ NoLoad
        /\ NoTasks
        /\ NoAffordanceRecords
        /\ root_pc = "idle"
        /\ root_start = 0
        /\ obj_id = 0
        /\ hops = 0

SpecRoot == InitRoot /\ [][RootNext]_vars

\* The ids reached from the ids of S by following up to k parent links.
RECURSIVE UpClosure(_, _, _)
UpClosure(rev, S, k) ==
    IF k = 0 THEN S
    ELSE UpClosure(rev, S \cup {DictGet(rev, x) : x \in {y \in S : DictHas(rev, y)}}, k - 1)

\* The ancestors of id in the child-to-parent map, id itself excluded.
Ancestors(rev, id) == UpClosure(rev, {id}, Len(rev)) \ {id}

\* C9: get_part_tree_root returns, after exactly as many hops as the id has
\* ancestors, the one id among the start and its ancestors that has no parent;
\* an id without a parent is returned itself after zero hops; while it runs it
\* never makes more hops than the id has ancestors.
C9_RootAfterDepthHops ==
    LET anc == Ancestors(self_rev_part_tree, root_start)
    IN  /\ root_pc = "loop" => hops <= Cardinality(anc)
        /\ root_pc = "done" =>
              /\ hops = Cardinality(anc)
              /\ {a \in anc \cup {root_start} : ~DictHas(self_rev_part_tree, a)} = {obj_id}
              /\ ~DictHas(self_rev_part_tree, root_start) => obj_id = root_start /\ hops = 0

\* The root of a part two levels below it was returned.
C9_Witness ==
    /\ root_pc = "done"
    /\ hops = 2
    /\ obj_id # root_start

\* ------------------------------------------------------------ affordances
\* get_part_tree_root as a function: the id reached after following parent
\* links while there is one (at most k of them).
RECURSIVE RootOf(_, _, _)
RootOf(rev, id, k) ==
    IF k = 0 \/ ~DictHas(rev, id) THEN id ELSE RootOf(rev, DictGet(rev, id), k - 1)

get_part_tree_root(rev, id) == RootOf(rev, id, Len(rev))

\* load_affordance(obj_id, return_instantiated=False): the un-hydrated record.
load_affordance(id) ==
    [instantiated    |-> FALSE,
     obj_id          |-> id,
     has_model       |-> DictGet(object_affordance, id).has_model,
     obj_instance_id |-> get_part_tree_root(self_rev_part_tree, id),
     obj_part_id     |-> DictGet(part_tree, id),
     obj_mesh        |-> NoRecord]

\* The mesh object that the next _load_obj(id) returns: each load of a file
\* makes a new object.
Mesh(id, log) ==
    [mesh_of |-> id, load |-> 1 + Cardinality({i \in 1..Len(log) : log[i] = id})]

\* A load of the mesh whether or not the cache holds it.
CacheLoad_Always(cache, log, id) ==
    IF id \in unloadable
    THEN [cache |-> cache, log |-> log, ok |-> FALSE]
    ELSE [cache |-> DictSet(cache, id, Mesh(id, log)), log |-> Append(log, id), ok |-> TRUE]

\* if obj_part_id not in self.obj_cache:
\*     self.obj_cache[obj_part_id] = self._load_obj(obj_part_id)
\* ok is FALSE when _load_obj raises.
CacheLoad(cache, log, id) ==
    IF DictHas(cache, id)
    THEN [cache |-> cache, log |-> log, ok |-> TRUE]
    ELSE IF id \in unloadable
    THEN [cache |-> cache, log |-> log, ok |-> FALSE]
    ELSE [cache |-> DictSet(cache, id, Mesh(id, log)), log |-> Append(log, id), ok |-> TRUE]

\* The loop over affordance_data.obj_part_id, its first m iterations: the
\* obj_mesh dict so far, the cache, and whether no load has raised.
RECURSIVE HydrateParts(_, _, _, _)
HydrateParts(parts, m, cache, log) ==
    IF m = 0 THEN [dict |-> <<>>, cache |-> cache, log |-> log, ok |-> TRUE]
    ELSE LET prev == HydrateParts(parts, m - 1, cache, log)
             st   == CacheLoad(prev.cache, prev.log, parts[m])
         IN  IF ~prev.ok THEN prev
             ELSE IF ~st.ok THEN [prev EXCEPT !.ok = FALSE]
             ELSE [dict  |-> DictSet(prev.dict, parts[m], DictGet(st.cache, parts[m])),
                   cache |-> st.cache, log |-> st.log, ok |-> TRUE]

\* An instantiate_affordance without the instantiated guard that reads the
\* model file of the affordance's own id whether or not the cache holds it.
instantiate_affordance_Reload(rec, cache, log) ==
    IF ~rec.has_model
    THEN LET st == HydrateParts(rec.obj_part_id, Len(rec.obj_part_id), cache, log)
         IN  [rec   |-> [rec EXCEPT !.obj_mesh = [dict |-> st.dict],
                                    !.instantiated = st.ok],
              cache |-> st.cache, log |-> st.log]
    ELSE LET st == CacheLoad_Always(cache, log, rec.obj_id)
         IN  IF ~st.ok THEN [rec |-> rec, cache |-> cache, log |-> log]
             ELSE [rec   |-> [rec EXCEPT !.obj_mesh = [mesh |-> DictGet(st.cache, rec.obj_id)],
                                         !.instantiated = TRUE],
                   cache |-> st.cache, log |-> st.log]

\* An instantiate_affordance that sets the flag of an affordance without a
\* model of its own whether or not every part was loaded.
instantiate_affordance_FlagAlways(rec, cache, log) ==
    IF rec.instantiated
    THEN [rec |-> rec, cache |-> cache, log |-> log]
    ELSE IF ~rec.has_model
    THEN LET st == HydrateParts(rec.obj_part_id, Len(rec.obj_part_id), cache, log)
         IN  [rec   |-> [rec EXCEPT !.obj_mesh = [dict |-> st.dict],
                                    !.instantiated = TRUE],
              cache |-> st.cache, log |-> st.log]
    ELSE LET st == CacheLoad(cache, log, rec.obj_id)
         IN  IF ~st.ok THEN [rec |-> rec, cache |-> cache, log |-> log]
             ELSE [rec   |-> [rec EXCEPT !.obj_mesh = [mesh |-> DictGet(st.cache, rec.obj_id)],
                                         !.instantiated = TRUE],
                   cache |-> st.cache, log |-> st.log]

\* instantiate_affordance(rec): the record, the cache and the log of loads
\* when the call returns or raises.
instantiate_affordance(rec, cache, log) ==
    IF rec.instantiated
    THEN [rec |-> rec, cache |-> cache, log |-> log]
    ELSE IF ~rec.has_model
    THEN LET st == HydrateParts(rec.obj_part_id, Len(rec.obj_part_id), cache, log)
         IN  [rec   |-> [rec EXCEPT !.obj_mesh = [dict |-> st.dict],
                                    !.instantiated = st.ok],
              cache |-> st.cache, log |-> st.log]
    ELSE LET st == CacheLoad(cache, log, rec.obj_id)
         IN  IF ~st.ok THEN [rec |-> rec, cache |-> cache, log |-> log]
             ELSE [rec   |-> [rec EXCEPT !.obj_mesh = [mesh |-> DictGet(st.cache, rec.obj_id)],
                                         !.instantiated = TRUE],
                   cache |-> st.cache, log |-> st.log]

\* The caller calls instantiate_affordance on one of its records.
InstantiateAffordance ==
    \E r \in DOMAIN affs :
        LET res == instantiate_affordance(affs[r], obj_cache, load_log)
        IN  /\ affs' = [affs EXCEPT ![r] = res.rec]
            /\ obj_cache' = res.cache
            /\ load_log' = res.log
            /\ last_call' = [op |-> "instantiate_affordance", arg |-> r,
                             hydrated_before |-> affs[r].instantiated]
            /\ UNCHANGED <<loadVars, treeVars, rootVars, hydVars>>

AffNext == InstantiateAffordance

NoRootCall ==
    /\ root_pc = "idle"
    /\ root_start = 0
    /\ obj_id = 0
    /\ hops = 0

\* SpecAff: every acyclic hierarchy of up to MaxParts ids, at most one of them
\* without a loadable model file, and two records the caller got from
\* load_affordance (of the same id or not); has_model is drawn for the ids of
\* the records, the only ones whose flag is read.
InitAff ==
    \E n \in 1..MaxParts : \E parent \in AcyclicParents(n) :
    \E ida \in 1..n : \E idb \in ida..n :
    \E has_model \in {h \in [1..n -> BOOLEAN] : \A i \in 1..n : i \notin {ida, idb} => h[i]} :
    \E bad \in {{}} \cup {{i} : i \in 1..n} :
        /\ TreeInit(n, parent, has_model, bad)
        /\ NoLoad
        /\ NoTasks
        /\ NoRootCall
        /\ affs = [r \in {"a", "b"} |-> load_affordance(IF r = "a" THEN ida ELSE idb)]
        /\ obj_cache = <<>>
        /\ load_log = <<>>
        /\ last_call = [op |-> "none"]

SpecAff == InitAff /\ [][AffNext]_vars

\* The ids a record needs a mesh for.
NeededIds(rec) == IF rec.has_model THEN {rec.obj_id} ELSE Range(rec.obj_part_id)

\* C7: _load_obj returned a mesh at most once per id; the cache holds exactly
\* the ids loaded, each with the mesh object of its first load (no entry is
\* ever removed or replaced); every hydrated record holds the cached objects.
C7_MeshLoadedAtMostOnce ==
    /\ \A i \in 1..Len(load_log) : \A j \in 1..Len(load_log) :
          load_log[i] = load_log[j] => i = j
    /\ DictKeys(obj_cache) = Range(load_log)
    /\ \A id \in DictKeys(obj_cache) : DictGet(obj_cache, id) = [mesh_of |-> id, load |-> 1]
    /\ \A r \in DOMAIN affs :
          affs[r].instantiated =>
             /\ NeededIds(affs[r]) \subseteq DictKeys(obj_cache)
             /\ IF affs[r].has_model
                THEN affs[r].obj_mesh = [mesh |-> DictGet(obj_cache, affs[r].obj_id)]
                ELSE /\ DictKeys(affs[r].obj_mesh.dict) = Range(affs[r].obj_part_id)
                     /\ \A id \in Range(affs[r].obj_part_id) :
                           DictGet(affs[r].obj_mesh.dict, id) = DictGet(obj_cache, id)

\* Two hydrated records, one with its own model and one without, that share
\* an id: the mesh was loaded once.
C7_Witness ==
    /\ affs["a"].instantiated /\ affs["b"].instantiated
    /\ affs["a"].has_model # affs["b"].has_model
    /\ NeededIds(affs["a"]) \cap NeededIds(affs["b"]) # {}

\* -------------------------------------------------------- task hydration
\* The value the annotation records for frame fid in one of its per-frame
\* tables: "smplx" (raw_smplx), "lh" and "rh" (the lh__ and rh__ keys of
\* raw_mano) or an object id (obj_transf).  Every parameter name of a table is
\* stacked by the same loop, so a table stands for each of its parameters.
Row(src, fid) == [src |-> src, fid |-> fid]

\* A row of zeros.
ZeroRow == [zero |-> TRUE]

max(a, b) == IF a >= b THEN a ELSE b
min(a, b) == IF a <= b THEN a ELSE b

\* min(l) and max(l) of a non-empty list of integers.
MinOf(l) == CHOOSE x \in Range(l) : \A y \in Range(l) : x <= y
MaxOf(l) == CHOOSE x \in Range(l) : \A y \in Range(l) : x >= y

\* list(range(a, b))
range(a, b) == [i \in 1..max(0, b - a) |-> a + i - 1]

\* The frame ids in ascending order.
Ascending(fids) ==
    [i \in 1..Cardinality(Range(fids)) |->
        CHOOSE x \in Range(fids) : Cardinality({y \in Range(fids) : y < x}) = i - 1]

\* The rows of the frames stacked in ascending frame-id order.
Stack_Ascending(src, fids) == [i \in 1..Len(Ascending(fids)) |-> Row(src, Ascending(fids)[i])]

\* for fid in mocap_frame_id_list: _param_tensor.append(handle[fid][k]),
\* followed by torch.cat / np.stack along the first axis.
Stack(src, fids) == [i \in 1..Len(fids) |-> Row(src, fids[i])]

collect_smplx(anno) == [rows |-> Stack("smplx", anno.mocap_frame_id_list)]

collect_mano(anno, hand_side) == [rows |-> Stack(hand_side, anno.mocap_frame_id_list)]

\* _collect_obj_transf: res[obj_id] = stacked rows, the first m objects.
RECURSIVE CollectObjUpTo(_, _)
CollectObjUpTo(anno, m) ==
    IF m = 0 THEN <<>>
    ELSE DictSet(CollectObjUpTo(anno, m - 1), anno.obj_list[m],
                 [rows |-> Stack(anno.obj_list[m], anno.mocap_frame_id_list)])

collect_obj_transf(anno) == [dict |-> CollectObjUpTo(anno, Len(anno.obj_list))]

\* instantiate_complex_task(rec): the record after the call.
instantiate_complex_task(rec, anno) ==
    IF rec.instantiated THEN rec
    ELSE [rec EXCEPT
            !.frame_range    = <<MinOf(anno.mocap_frame_id_list), MaxOf(anno.mocap_frame_id_list)>>,
            !.scene_obj_list = Some(anno.obj_list),
            !.smplx_param    = collect_smplx(anno),
            !.lh_param       = collect_mano(anno, "lh"),
            !.rh_param       = collect_mano(anno, "rh"),
            !.obj_transf     = collect_obj_transf(anno),
            !.instantiated   = TRUE]

\* fix_g_info's loop over node_to_contact run to its end; NoRecord when
\* g_info["id_map"][node] raises KeyError.
RECURSIVE ContractAll(_, _)
ContractAll(g, worklist) ==
    IF worklist = <<>> THEN g
    ELSE IF ~DictHas(g.id_map, Head(worklist)) THEN NoRecord
    ELSE ContractAll(ContractNode(g, Head(worklist)), Tail(worklist))

fix_g_info(g, namemap) == ContractAll(g, NodesToContract(g, namemap))

\* load_complex_task(seq_key, return_instantiated) on the files of the
\* sequence: the record returned, NoRecord when the call raises.  The
\* frame_id and obj_list extension files are read for an un-hydrated record
\* only, when they exist.
load_complex_task(pfile, gfile, anno, return_instantiated) ==
    LET pinfo == load_program_info(pfile)
        aff   == suffix_affordance_primitive_segment(pinfo)
        tra   == suffix_transient_primitive_segment(pinfo)
        full  == ReorderNameMap(pinfo, MergeNameMaps(aff, tra))
        fixed == fix_g_info(gfile, aff)
        pdg   == IF fixed = NoRecord THEN NoRecord ELSE BuildPdg(fixed, aff)
        res   == [seq_key              |-> "seq",
                  is_complex           |-> Len(aff) > 0,
                  exec_path            |-> DictValues(full.map),
                  exec_path_affordance |-> DictValues(aff),
                  exec_range_map       |-> RevNameMap(full.map),
                  pdg                  |-> pdg,
                  frame_range          |->
                      IF ~return_instantiated /\ anno.has_frame_id_file
                      THEN <<MinOf(anno.mocap_frame_id_list), MaxOf(anno.mocap_frame_id_list)>>
                      ELSE None,
                  scene_obj_list       |->
                      IF ~return_instantiated /\ anno.has_obj_list_file
                      THEN Some(anno.obj_list) ELSE None,
                  instantiated         |-> FALSE,
                  smplx_param          |-> NoRecord,
                  lh_param             |-> NoRecord,
                  rh_param             |-> NoRecord,
                  obj_transf           |-> NoRecord]
    IN  IF full = NoRecord \/ pdg = NoRecord THEN NoRecord
        ELSE IF return_instantiated THEN instantiate_complex_task(res, anno)
        ELSE res

\* program.frame_range_def_enclose(frame_range_def): the smallest range that
\* encloses the hand ranges of the definition.
frame_range_def_enclose(def) ==
    IF def[1] = None THEN def[2]
    ELSE IF def[2] = None THEN def[1]
    ELSE <<min(def[1][1], def[2][1]), max(def[1][2], def[2][2])>>

\* program.determine_hand_involved(frame_range_def)
determine_hand_involved(def) ==
    IF def[1] = None THEN "rh" ELSE IF def[2] = None THEN "lh" ELSE "bh"

\* A _load_primitive_task_from_def that reads the definition as (whole-body
\* range, left-hand range, right-hand range).
load_primitive_task_from_def_WholeFirst(def, pinfo, anno, return_instantiated) ==
    IF ~DictHas(pinfo, str(def)) THEN NoRecord
    ELSE LET program_item == DictGet(pinfo, str(def))
         IN  [seq_key          |-> "seq",
              primitive_task   |-> program_item.primitive,
              transient        |-> is_transient(program_item.primitive),
              hand_involved    |-> determine_hand_involved(Tail(def)),
              interaction_mode |-> program_item.interaction_mode,
              frame_range      |-> def[1],
              frame_range_lh   |-> def[2],
              frame_range_rh   |-> def[3],
              scene_obj_list   |->
                  IF ~return_instantiated /\ anno.has_obj_list_file
                  THEN Some(anno.obj_list) ELSE None,
              task_obj_list    |-> program_item.obj_list,
              lh_obj_list      |-> program_item.obj_list_lh,
              rh_obj_list      |-> program_item.obj_list_rh,
              instantiated     |-> FALSE,
              smplx_param      |-> NoRecord,
              lh_param         |-> NoRecord,
              rh_param         |-> NoRecord,
              lh_in_range_mask |-> NoRecord,
              rh_in_range_mask |-> NoRecord,
              obj_transf       |-> NoRecord]

\* _load_primitive_task_from_def: the un-hydrated record of the segment,
\* NoRecord when program_info[str(frame_range_def)] raises KeyError.
load_primitive_task_from_def(def, pinfo, anno, return_instantiated) ==
    IF ~DictHas(pinfo, str(def)) THEN NoRecord
    ELSE LET program_item == DictGet(pinfo, str(def))
         IN  [seq_key          |-> "seq",
              primitive_task   |-> program_item.primitive,
              transient        |-> is_transient(program_item.primitive),
              hand_involved    |-> determine_hand_involved(def),
              interaction_mode |-> program_item.interaction_mode,
              frame_range      |-> frame_range_def_enclose(def),
              frame_range_lh   |-> def[1],
              frame_range_rh   |-> def[2],
              scene_obj_list   |->
                  IF ~return_instantiated /\ anno.has_obj_list_file
                  THEN Some(anno.obj_list) ELSE None,
              task_obj_list    |-> program_item.obj_list,
              lh_obj_list      |-> program_item.obj_list_lh,
              rh_obj_list      |-> program_item.obj_list_rh,
              instantiated     |-> FALSE,
              smplx_param      |-> NoRecord,
              lh_param         |-> NoRecord,
              rh_param         |-> NoRecord,
              lh_in_range_mask |-> NoRecord,
              rh_in_range_mask |-> NoRecord,
              obj_transf       |-> NoRecord]

\* _load_primitive_task_from_identifier: NoRecord when a lookup raises.
load_primitive_task_from_identifier(ident, pinfo, anno, return_instantiated) ==
    LET aff  == suffix_affordance_primitive_segment(pinfo)
        tra  == suffix_transient_primitive_segment(pinfo)
        full == ReorderNameMap(pinfo, MergeNameMaps(aff, tra))
    IN  IF full = NoRecord THEN NoRecord
        ELSE IF ~DictHas(RevNameMap(full.map), ident) THEN NoRecord
        ELSE load_primitive_task_from_def(DictGet(RevNameMap(full.map), ident),
                                          pinfo, anno, return_instantiated)

\* Indexing the first axis of a stacked value with a list of frame ids takes
\* the rows at these positions; ok is FALSE when a position is out of range
\* (IndexError).
IndexRows(rows, frame_list) ==
    [ok   |-> \A i \in 1..Len(frame_list) : frame_list[i] + 1 <= Len(rows),
     rows |-> [i \in 1..Len(frame_list) |->
                 IF frame_list[i] + 1 <= Len(rows) THEN rows[frame_list[i] + 1] ELSE ZeroRow]]

\* An index_param that drops the padding.
index_param_NoPad(param, frame_list, l_pad, r_pad) ==
    LET idx == IndexRows(param.rows, frame_list)
    IN  [ok   |-> idx.ok,
         rows |-> idx.rows,
         mask |-> [i \in 1..Len(frame_list) |-> TRUE]]

\* tool.index_param(param, frame_list, l_pad, r_pad): the rows of the frames,
\* l_pad rows of zeros before them and r_pad after, and the mask that is true
\* for the rows taken from param.
index_param(param, frame_list, l_pad, r_pad) ==
    LET idx == IndexRows(param.rows, frame_list)
    IN  [ok   |-> idx.ok,
         rows |-> [i \in 1..l_pad |-> ZeroRow] \o idx.rows \o [i \in 1..r_pad |-> ZeroRow],
         mask |-> [i \in 1..l_pad |-> FALSE] \o [i \in 1..Len(frame_list) |-> TRUE]
                     \o [i \in 1..r_pad |-> FALSE]]

\* tool.zero_param(param, n): n rows of zeros and an all-false mask.
zero_param(param, n) ==
    [ok |-> TRUE, rows |-> [i \in 1..n |-> ZeroRow], mask |-> [i \in 1..n |-> FALSE]]

\* The tensor and the mask of one hand, lines 204-221.
HandParam(param, frame_range, frame_range_h) ==
    IF frame_range_h # None
    THEN index_param(param, range(frame_range_h[1], frame_range_h[2]),
                     max(0, frame_range_h[1] - frame_range[1]),
                     max(0, frame_range[2] - frame_range_h[2]))
    ELSE zero_param(param, Len(range(frame_range[1], frame_range[2])))

\* The loop over task_obj_list, its first m objects: the obj_transf dict and
\* whether no indexing has raised.
RECURSIVE SliceObjUpTo(_, _, _, _)
SliceObjUpTo(task_obj_list, parent_transf, frame_list, m) ==
    IF m = 0 THEN [ok |-> TRUE, dict |-> <<>>]
    ELSE LET prev == SliceObjUpTo(task_obj_list, parent_transf, frame_list, m - 1)
             o    == task_obj_list[m]
         IN  IF ~DictHas(parent_transf, o) THEN prev
             ELSE LET idx == IndexRows(DictGet(parent_transf, o).rows, frame_list)
                  IN  [ok   |-> prev.ok /\ idx.ok,
                       dict |-> DictSet(prev.dict, o, [rows |-> idx.rows])]

\* A clean-up that keeps every element of the list.
Prune_KeepAll(l, obj_transf) == l

\* [el for el in l if el in obj_transf]
Prune(l, obj_transf) == SelectSeq(l, LAMBDA el : DictHas(obj_transf, el))

\* Lines 200-248 of instantiate_primitive_task for the parent record the
\* local complex_task_data refers to: the primitive record after them and
\* whether they raised.
SliceFromParent(prim, parent) ==
    LET frame_range == prim.frame_range
        frame_list  == range(frame_range[1], frame_range[2])
        smplx == index_param(parent.smplx_param, frame_list, 0, 0)
        lh    == HandParam(parent.lh_param, frame_range, prim.frame_range_lh)
        rh    == HandParam(parent.rh_param, frame_range, prim.frame_range_rh)
        objs  == SliceObjUpTo(prim.task_obj_list, parent.obj_transf.dict, frame_list,
                              Len(prim.task_obj_list))
    IN  IF ~(smplx.ok /\ lh.ok /\ rh.ok /\ objs.ok)
        THEN [rec |-> prim, raised |-> TRUE]
        ELSE [rec |-> [prim EXCEPT
                        !.scene_obj_list   = parent.scene_obj_list,
                        !.smplx_param      = [rows |-> smplx.rows],
                        !.lh_param         = [rows |-> lh.rows],
                        !.rh_param         = [rows |-> rh.rows],
                        !.lh_in_range_mask = [rows |-> lh.mask],
                        !.rh_in_range_mask = [rows |-> rh.mask],
                        !.obj_transf       = [dict |-> objs.dict],
                        !.task_obj_list    = Prune(prim.task_obj_list, objs.dict),
                        !.lh_obj_list      =
                            IF prim.lh_obj_list # None
                            THEN Some(Prune(prim.lh_obj_list[1], objs.dict)) ELSE None,
                        !.rh_obj_list      =
                            IF prim.rh_obj_list # None
                            THEN Some(Prune(prim.rh_obj_list[1], objs.dict)) ELSE None,
                        !.instantiated     = TRUE],
              raised |-> FALSE]

\* An instantiate_primitive_task that hydrates the record it is passed in
\* place and slices from it.
instantiate_primitive_task_InPlace(prim, complex_arg, pfile, gfile, anno) ==
    IF prim.instantiated
    THEN [rec |-> prim, arg |-> complex_arg, parent |-> NoRecord, raised |-> FALSE]
    ELSE LET parent == IF complex_arg = NoRecord
                       THEN load_complex_task(pfile, gfile, anno, TRUE)
                       ELSE instantiate_complex_task(complex_arg, anno)
             arg    == IF complex_arg = NoRecord THEN complex_arg ELSE parent
         IN  IF parent = NoRecord
             THEN [rec |-> prim, arg |-> arg, parent |-> NoRecord, raised |-> TRUE]
             ELSE [rec    |-> SliceFromParent(prim, parent).rec,
                   arg    |-> arg,
                   parent |-> parent,
                   raised |-> SliceFromParent(prim, parent).raised]

\* instantiate_primitive_task(prim, complex_arg), complex_arg NoRecord for
\* None: the primitive record (rec) and the record the caller passed (arg)
\* when the call returns or raises, and the record the tensors were sliced
\* from (parent).  "complex_task_data = self.load_complex_task(...)" binds
\* the local name to a new record: the record of the caller is not written.
instantiate_primitive_task(prim, complex_arg, pfile, gfile, anno) ==
    IF prim.instantiated
    THEN [rec |-> prim, arg |-> complex_arg, parent |-> NoRecord, raised |-> FALSE]
    ELSE LET parent == IF complex_arg = NoRecord \/ ~complex_arg.instantiated
                       THEN load_complex_task(pfile, gfile, anno, TRUE)
                       ELSE complex_arg
         IN  IF parent = NoRecord
             THEN [rec |-> prim, arg |-> complex_arg, parent |-> NoRecord, raised |-> TRUE]
             ELSE [rec    |-> SliceFromParent(prim, parent).rec,
                   arg    |-> complex_arg,
                   parent |-> parent,
                   raised |-> SliceFromParent(prim, parent).raised]

\* The caller calls instantiate_complex_task on its ComplexTask record.
InstantiateComplexTask ==
    /\ ctask # NoRecord
    /\ ctask' = instantiate_complex_task(ctask, anno_file)
    /\ last_call' = [op |-> "instantiate_complex_task", arg |-> "ctask",
                     hydrated_before |-> ctask.instantiated]
    /\ UNCHANGED <<loadVars, treeVars, rootVars, affVars, anno_file, ptasks>>

\* The caller calls instantiate_primitive_task on one of its PrimitiveTask
\* records, with its ComplexTask record or without.
InstantiatePrimitiveTask ==
    /\ ctask # NoRecord
    /\ \E r \in DOMAIN ptasks : \E with_complex \in BOOLEAN :
          LET res == instantiate_primitive_task(
                         ptasks[r], IF with_complex THEN ctask ELSE NoRecord,
                         program_file, pdg_file, anno_file)
          IN  /\ ptasks' = [ptasks EXCEPT ![r] = res.rec]
              /\ ctask' = IF with_complex THEN res.arg ELSE ctask
              /\ last_call' = [op |-> "instantiate_primitive_task", arg |-> r,
                               hydrated_before |-> ptasks[r].instantiated,
                               with_complex |-> with_complex,
                               complex_hydrated_before |-> ctask.instantiated,
                               parent |-> res.parent,
                               raised |-> res.raised]
    /\ UNCHANGED <<loadVars, treeVars, rootVars, affVars, anno_file>>

\* The caller replaces one of its PrimitiveTask records by the one that
\* load_primitive_task(ctask, identifier, return_instantiated) returns; the
\* ComplexTask record is hydrated in place first when return_instantiated.
LoadPrimitiveTask ==
    /\ ctask # NoRecord
    /\ \E r \in DOMAIN ptasks : \E ident \in Range(ctask.exec_path) :
       \E return_instantiated \in BOOLEAN :
          LET complex == IF return_instantiated
                         THEN instantiate_complex_task(ctask, anno_file) ELSE ctask
              p_res   == load_primitive_task_from_identifier(
                             ident, load_program_info(program_file), anno_file,
                             return_instantiated)
              res     == instantiate_primitive_task(p_res, complex, program_file,
                                                    pdg_file, anno_file)
              raised  == p_res = NoRecord \/ (return_instantiated /\ res.raised)
          IN  /\ ctask' = complex
              /\ ptasks' = IF raised THEN ptasks
                           ELSE [ptasks EXCEPT ![r] = IF return_instantiated
                                                      THEN res.rec ELSE p_res]
              /\ last_call' = [op |-> "load_primitive_task", arg |-> r,
                               return_instantiated |-> return_instantiated,
                               raised |-> raised]
    /\ UNCHANGED <<loadVars, treeVars, rootVars, affVars, anno_file>>

TaskNext == InstantiateComplexTask \/ InstantiatePrimitiveTask \/ LoadPrimitiveTask

\* No load_complex_task call in steps of its own.
NoLoadCall ==
    /\ pc = "idle"
    /\ program_info = <<>>
    /\ affordance_task_namemap = <<>>
    /\ full_task_namemap = <<>>
    /\ g_info = [id_map |-> <<>>, e |-> <<>>]
    /\ node_to_contact = <<>>
    /\ task = NoRecord

\* The caller holds the un-hydrated records that load_complex_task and
\* load_primitive_task (return_instantiated=False) return for the sequence:
\* one ComplexTask record and a PrimitiveTask record per name, of the first
\* task of the execution path.
TaskInit(pfile, gfile, anno, names) ==
    /\ program_file = pfile
    /\ pdg_file = gfile
    /\ NoLoadCall
    /\ anno_file = anno
    /\ ctask = load_complex_task(pfile, gfile, anno, FALSE)
    /\ ptasks = [r \in names |->
                    load_primitive_task_from_identifier(
                        load_complex_task(pfile, gfile, anno, FALSE).exec_path[1],
                        load_program_info(pfile), anno, FALSE)]

\* The program file of a sequence with the single segment def, and its PDG.
OneSegmentProgram(def, item) == <<[k |-> str(def), v |-> item]>>

OneSegmentPdg(def) == [id_map |-> <<[k |-> str(def), v |-> 1]>>, e |-> <<>>]

\* The annotation with the given frame-id list and scene objects.
Anno(fids, objs, frame_id_file, obj_list_file) ==
    [mocap_frame_id_list |-> fids, obj_list |-> objs,
     has_frame_id_file |-> frame_id_file, has_obj_list_file |-> obj_list_file]

\* The half-open ranges over the frame ids 0..MaxFrame.
FrameRanges == {<<a, b>> : a \in 0..(MaxFrame + 1), b \in 0..(MaxFrame + 1)} \cap
               {r \in (0..(MaxFrame + 1)) \X (0..(MaxFrame + 1)) : r[1] <= r[2]}

\* The definitions (lh range, rh range) with at least one hand.
HandDefs ==
    {<<lh, rh>> : lh \in FrameRanges \cup {None}, rh \in FrameRanges \cup {None}}
        \ {<<None, None>>}

\* The frame-id lists 0, 1, ..., n - 1.
CountingLists == {[i \in 1..n |-> i - 1] : n \in 1..(MaxFrame + 1)}

\* The non-empty lists of distinct frame ids of 0..MaxFrame, in any order.
FrameLists == UNION {DistinctSeqs(0..MaxFrame, n) : n \in 1..(MaxFrame + 1)}

\* SpecTask: a sequence of one segment whose objects are "o1" (in the scene)
\* and "o2" (not in it), with either every definition over a counting
\* frame-id list, or every frame-id list under a left-hand definition.
InitTask ==
    /\ NoAffordances
    /\ \E def \in HandDefs : \E fids \in FrameLists : \E cache \in BOOLEAN :
          /\ fids \in CountingLists
             \/ def \in {<<<<0, 1>>, None>>, <<<<0, 2>>, None>>, <<<<1, 3>>, None>>}
          /\ TaskInit(OneSegmentProgram(def, ProgramItem("pour", <<"o1", "o2">>,
                                                         Some(<<"o2", "o1">>), None)),
                      OneSegmentPdg(def),
                      Anno(fids, <<"o1">>, cache, cache),
                      {"p"})

SpecTask == InitTask /\ [][TaskNext]_vars

\* The stacked values of a hydrated ComplexTask record for the frame ids in
\* the order of the list fids.
StackedAlong(rec, fids) ==
    /\ rec.smplx_param.rows = [i \in 1..Len(fids) |-> Row("smplx", fids[i])]
    /\ rec.lh_param.rows = [i \in 1..Len(fids) |-> Row("lh", fids[i])]
    /\ rec.rh_param.rows = [i \in 1..Len(fids) |-> Row("rh", fids[i])]
    /\ DictKeys(rec.obj_transf.dict) = Range(anno_file.obj_list)
    /\ \A o \in Range(anno_file.obj_list) :
          DictGet(rec.obj_transf.dict, o).rows = [i \in 1..Len(fids) |-> Row(o, fids[i])]

\* C10 as claimed: row i of every stacked value of a hydrated ComplexTask is
\* the value recorded for the i-th smallest frame id.
C10_StackedInAscendingFrameOrder ==
    (ctask # NoRecord /\ ctask.instantiated) =>
        StackedAlong(ctask, Ascending(anno_file.mocap_frame_id_list))

\* C10 amended: row i of every stacked value of a hydrated ComplexTask is the
\* value recorded for the i-th entry of mocap_frame_id_list, one row per entry.
C10_StackedInListOrder ==
    (ctask # NoRecord /\ ctask.instantiated) =>
        StackedAlong(ctask, anno_file.mocap_frame_id_list)

\* A ComplexTask hydrated from a frame-id list that is not ascending.
C10_Witness ==
    /\ ctask # NoRecord /\ ctask.instantiated
    /\ anno_file.mocap_frame_id_list # Ascending(anno_file.mocap_frame_id_list)
    /\ Len(anno_file.mocap_frame_id_list) >= 3

\* The tensor and the mask of one hand of the hydrated record rec, whose
\* sub-range is sub, have the length of the whole-body range; with a
\* sub-range inside the whole-body range the mask is true at the offsets of
\* the sub-range and nowhere else, and the rows outside are zero; without a
\* sub-range the mask is all false and the rows all zero.
HandAligned(rec, sub, tensor, mask) ==
    LET n == rec.frame_range[2] - rec.frame_range[1]
    IN  /\ n >= 0
        /\ Len(tensor.rows) = n
        /\ Len(mask.rows) = n
        /\ IF sub = None
           THEN \A i \in 1..n : ~mask.rows[i] /\ tensor.rows[i] = ZeroRow
           ELSE (rec.frame_range[1] <= sub[1] /\ sub[1] <= sub[2]
                    /\ sub[2] <= rec.frame_range[2]) =>
                /\ \A i \in 1..n :
                      /\ mask.rows[i] <=> /\ sub[1] - rec.frame_range[1] < i
                                          /\ i <= sub[2] - rec.frame_range[1]
                      /\ ~mask.rows[i] => tensor.rows[i] = ZeroRow
                      /\ mask.rows[i] => tensor.rows[i] # ZeroRow
                /\ Cardinality({i \in 1..n : mask.rows[i]}) = sub[2] - sub[1]

\* C4: every hydrated PrimitiveTask has, for each hand, a tensor and a mask
\* of the length of its whole-body range, the mask true exactly at the
\* offsets of the hand's sub-range (all false and all zero without one).
C4_HandMaskAligned ==
    \A r \in DOMAIN ptasks :
        ptasks[r].instantiated =>
            /\ HandAligned(ptasks[r], ptasks[r].frame_range_lh,
                           ptasks[r].lh_param, ptasks[r].lh_in_range_mask)
            /\ HandAligned(ptasks[r], ptasks[r].frame_range_rh,
                           ptasks[r].rh_param, ptasks[r].rh_in_range_mask)

\* A hydrated PrimitiveTask whose left-hand sub-range starts after and ends
\* before its whole-body range.
C4_Witness ==
    \E r \in DOMAIN ptasks :
        /\ ptasks[r].instantiated
        /\ ptasks[r].frame_range_lh # None
        /\ ptasks[r].frame_range[1] < ptasks[r].frame_range_lh[1]
        /\ ptasks[r].frame_range_lh[1] < ptasks[r].frame_range_lh[2]
        /\ ptasks[r].frame_range_lh[2] < ptasks[r].frame_range[2]

\* The last call was instantiate_primitive_task on an un-hydrated
\* PrimitiveTask together with the un-hydrated ComplexTask record of the
\* caller, and it returned.
HydratedWithUnhydratedOwner ==
    /\ last_call.op = "instantiate_primitive_task"
    /\ last_call.with_complex
    /\ ~last_call.hydrated_before
    /\ ~last_call.complex_hydrated_before
    /\ ~last_call.raised

\* C6 as claimed: when that call returns, the ComplexTask record passed is
\* hydrated and the primitive task was sliced from it.
C6_OwnerHydratedOnDemand ==
    HydratedWithUnhydratedOwner =>
        /\ ctask.instantiated
        /\ ctask.smplx_param # NoRecord
        /\ last_call.parent = ctask

\* C6 amended: when that call returns, the ComplexTask record passed is as it
\* was (not hydrated, no tensor); the primitive task is hydrated and sliced
\* from a new hydrated record that load_complex_task built for the sequence.
C6_FreshOwnerHydrated ==
    HydratedWithUnhydratedOwner =>
        /\ ~ctask.instantiated
        /\ ctask.smplx_param = NoRecord /\ ctask.lh_param = NoRecord
        /\ ctask.rh_param = NoRecord /\ ctask.obj_transf = NoRecord
        /\ last_call.parent = load_complex_task(program_file, pdg_file, anno_file, TRUE)
        /\ last_call.parent.instantiated
        /\ LET prim == ptasks[last_call.arg]
           IN  /\ prim.instantiated
               /\ prim.smplx_param.rows =
                      [i \in 1..(prim.frame_range[2] - prim.frame_range[1]) |->
                          last_call.parent.smplx_param.rows[prim.frame_range[1] + i]]

\* Such a call returned with a non-empty whole-body slice.
C6_Witness ==
    /\ HydratedWithUnhydratedOwner
    /\ ptasks[last_call.arg].smplx_param.rows # <<>>

\* ------------------------------------------------ the end-to-end scenario
\* The FrameRangeDef of the scenario.
E2EDef == <<<<0, 10>>, <<2, 8>>, None>>

\* SpecE2E: a sequence whose program metadata has the single key E2EDef, of
\* any primitive type and object lists, with the frames 0..n-1 recorded.
InitE2E ==
    /\ NoAffordances
    /\ \E n \in 9..11 : \E primitive \in Primitives : \E cache \in BOOLEAN :
       \E objs \in {<<>>, <<"o1">>, <<"o1", "o2">>} :
       \E task_objs \in {<<>>, <<"o1">>, <<"o2", "o1">>} :
       \E lh_objs \in {None, Some(<<"o1">>)} :
          TaskInit(OneSegmentProgram(E2EDef, ProgramItem(primitive, task_objs, lh_objs, None)),
                   OneSegmentPdg(E2EDef),
                   Anno([i \in 1..n |-> i - 1], objs, cache, cache),
                   {"p"})

SpecE2E == InitE2E /\ [][TaskNext]_vars

HydrateNext == AffNext \/ TaskNext

\* SpecHydrate: the affordance records of SpecAff, or the task records of
\* SpecTask, or both kinds of record at once: an object 1 without a model of
\* its own and its part 2, and the records "p" and "q" of one segment.
InitHydrate ==
    \/ InitAff
    \/ InitTask
    \/ /\ TreeInit(2, [i \in 1..2 |-> i - 1], [i \in 1..2 |-> i = 2], {})
       /\ NoRootCall
       /\ affs = [r \in {"a", "b"} |-> load_affordance(IF r = "a" THEN 1 ELSE 2)]
       /\ obj_cache = <<>>
       /\ load_log = <<>>
       /\ last_call = [op |-> "none"]
       /\ TaskInit(OneSegmentProgram(<<<<0, 2>>, <<1, 2>>>>,
                                     ProgramItem("pour", <<"o1", "o2">>, None, None)),
                   OneSegmentPdg(<<<<0, 2>>, <<1, 2>>>>),
                   Anno(<<0, 1>>, <<"o1">>, FALSE, FALSE),
                   {"p", "q"})

SpecHydrate == InitHydrate /\ [][HydrateNext]_vars

HydrateOps == {"instantiate_affordance", "instantiate_complex_task",
               "instantiate_primitive_task"}

\* C3: no step changes a hydrated Affordance or ComplexTask record, no
\* hydrate call changes a hydrated PrimitiveTask record, and a hydrate call
\* on a record that is already hydrated changes no record and leaves the
\* mesh cache and the loads as they are.
C3_HydrateIdempotent ==
    [][/\ \A r \in DOMAIN affs : affs[r].instantiated => affs'[r] = affs[r]
       /\ (ctask # NoRecord /\ ctask.instantiated) => ctask' = ctask
       /\ last_call'.op \in HydrateOps =>
             /\ \A r \in DOMAIN ptasks : ptasks[r].instantiated => ptasks'[r] = ptasks[r]
             /\ last_call'.hydrated_before =>
                   /\ affs' = affs
                   /\ obj_cache' = obj_cache
                   /\ load_log' = load_log
                   /\ hydVars' = hydVars]_vars

\* instantiate_primitive_task was called on a hydrated PrimitiveTask while
\* the ComplexTask record and every Affordance record were hydrated, too.
C3_Witness ==
    /\ last_call.op = "instantiate_primitive_task"
    /\ last_call.hydrated_before
    /\ ctask.instantiated
    /\ \A r \in DOMAIN affs : affs[r].instantiated
    /\ \A r \in DOMAIN ptasks : ptasks[r].instantiated
    /\ DOMAIN affs # {}

\* ------------------------------------------------ the object lists
\* The object ids of the program items and of the scenes.
Objs == {"o1", "o2"}

\* The lists of up to MaxObjs object ids, repetitions included.
ObjLists == UNION {[1..n -> Objs] : n \in 0..MaxObjs}

\* The scenes: lists of distinct object ids.
SceneLists == UNION {DistinctSeqs(Objs, n) : n \in 0..Cardinality(Objs)}

\* SpecObj: a sequence of one two-handed segment over two recorded frames,
\* with any scene and any task, left-hand and right-hand object list (the
\* right-hand list is None or the task list).
InitObj ==
    /\ NoAffordances
    /\ \E scene \in SceneLists : \E task_objs \in ObjLists :
       \E lh_objs \in {None} \cup {Some(l) : l \in ObjLists} :
       \E rh_objs \in {None, Some(task_objs)} :
          TaskInit(OneSegmentProgram(<<<<0, 1>>, <<0, 2>>>>,
                                     ProgramItem("pour", task_objs, lh_objs, rh_objs)),
                   OneSegmentPdg(<<<<0, 1>>, <<0, 2>>>>),
                   Anno(<<0, 1>>, scene, FALSE, FALSE),
                   {"p"})

SpecObj == InitObj /\ [][TaskNext]_vars

\* The list l restricted, in its order, to the objects of the set S.
Restricted(l, S) == SelectSeq(l, LAMBDA el : el \in S)

\* C11: a hydrated PrimitiveTask has a transform for exactly the objects of
\* the task object list of its program item that the parent's hydrated
\* transform map has a key for, and its task, left-hand and right-hand object
\* lists are the lists of the program item restricted, in their order, to the
\* objects it has a transform for; a list that is None stays None.
C11_ObjListsPruned ==
    \A r \in DOMAIN ptasks :
        ptasks[r].instantiated =>
            LET item  == load_program_info(program_file)[1].v
                kept  == Range(item.obj_list) \cap Range(anno_file.obj_list)
                prim  == ptasks[r]
            IN  /\ (last_call.op = "instantiate_primitive_task" /\ last_call.parent # NoRecord)
                      => DictKeys(last_call.parent.obj_transf.dict) = Range(anno_file.obj_list)
                /\ DictKeys(prim.obj_transf.dict) = kept
                /\ prim.task_obj_list = Restricted(item.obj_list, kept)
                /\ IF item.obj_list_lh = None THEN prim.lh_obj_list = None
                   ELSE prim.lh_obj_list = Some(Restricted(item.obj_list_lh[1], kept))
                /\ IF item.obj_list_rh = None THEN prim.rh_obj_list = None
                   ELSE prim.rh_obj_list = Some(Restricted(item.obj_list_rh[1], kept))

\* A hydrated PrimitiveTask that lost an object of its task list and an
\* object of its left-hand list, and whose right-hand list is None.
C11_Witness ==
    \E r \in DOMAIN ptasks :
        LET item == load_program_info(program_file)[1].v
        IN  /\ ptasks[r].instantiated
            /\ ptasks[r].task_obj_list # <<>>
            /\ ptasks[r].task_obj_list # item.obj_list
            /\ item.obj_list_lh # None
            /\ ptasks[r].lh_obj_list # item.obj_list_lh
            /\ ptasks[r].rh_obj_list = None

\* ------------------------------------------------ failed hydration
\* The model files that were missing are put in place: _load_obj finds
\* exactly one file for every id from now on.
RestoreModelFile ==
    /\ unloadable # {}
    /\ unloadable' = {}
    /\ last_call' = [op |-> "restore_model_file"]
    /\ UNCHANGED <<loadVars, part_tree, self_rev_part_tree, object_affordance,
                   rootVars, affVars, hydVars>>

RetryNext == HydrateNext \/ RestoreModelFile

\* SpecRetry: the records of SpecHydrate, with model files that may be
\* missing at first and restored later.
SpecRetry == InitHydrate /\ [][RetryNext]_vars

\* Every hydrated field of a record whose instantiated flag is set is
\* assigned.
HydratedFieldsAssigned ==
    /\ \A r \in DOMAIN affs :
          affs[r].instantiated =>
             IF affs[r].has_model
             THEN affs[r].obj_mesh = [mesh |-> [mesh_of |-> affs[r].obj_id, load |-> 1]]
             ELSE /\ affs[r].obj_mesh # NoRecord
                  /\ DictKeys(affs[r].obj_mesh.dict) = Range(affs[r].obj_part_id)
    /\ (ctask # NoRecord /\ ctask.instantiated) =>
          /\ ctask.frame_range # None /\ ctask.scene_obj_list # None
          /\ ctask.smplx_param # NoRecord /\ ctask.lh_param # NoRecord
          /\ ctask.rh_param # NoRecord /\ ctask.obj_transf # NoRecord
    /\ \A r \in DOMAIN ptasks :
          ptasks[r].instantiated =>
             /\ ptasks[r].scene_obj_list # None
             /\ ptasks[r].smplx_param # NoRecord /\ ptasks[r].lh_param # NoRecord
             /\ ptasks[r].rh_param # NoRecord /\ ptasks[r].obj_transf # NoRecord
             /\ ptasks[r].lh_in_range_mask # NoRecord
             /\ ptasks[r].rh_in_range_mask # NoRecord

\* A hydrate call on a record that is not hydrated runs the hydration: it
\* sets the flag exactly when nothing raises (for an affordance: every mesh
\* it needs is cached or has its model file), whatever earlier calls on the
\* record did.
FailedHydrationRetried ==
    /\ last_call'.op = "instantiate_affordance" =>
          LET rec == affs[last_call'.arg]
          IN  ~rec.instantiated =>
                 (affs'[last_call'.arg].instantiated
                     <=> NeededIds(rec) \cap unloadable \subseteq DictKeys(obj_cache))
    /\ last_call'.op = "instantiate_primitive_task" =>
          (~ptasks[last_call'.arg].instantiated =>
              (ptasks'[last_call'.arg].instantiated <=> ~last_call'.raised))
    /\ last_call'.op = "instantiate_complex_task" => ctask'.instantiated

\* C12: a record with instantiated = true has all its hydrated fields
\* assigned (an Affordance without its own model: a mesh for exactly the ids
\* of obj_part_id); a hydrate call that fails leaves instantiated = false,
\* and a later call on the record runs the hydration again.
C12_FlagSetLast ==
    [](HydratedFieldsAssigned) /\ [][FailedHydrationRetried]_vars

\* An Affordance without its own model whose hydration failed after the
\* mesh of one part was stored, and the missing model file is restored.
C12_Witness ==
    /\ last_call.op = "restore_model_file"
    /\ \E r \in DOMAIN affs :
          /\ ~affs[r].instantiated
          /\ affs[r].obj_mesh # NoRecord
          /\ affs[r].obj_mesh.dict # <<>>
          /\ DictKeys(affs[r].obj_mesh.dict) # Range(affs[r].obj_part_id)

\* ------------------------------------------------ the worklist order
\* One iteration of the contraction loop for any node of the worklist, not
\* only its first: over the steps of a behaviour, the worklist is processed
\* in any permutation.  last_call records whether a node other than the
\* first of the worklist was ever taken.
ContractStepAnyOrder ==
    /\ pc = "contract"
    /\ \E i \in 1..Len(node_to_contact) :
          LET node == node_to_contact[i]
          IN  /\ IF ~DictHas(g_info.id_map, node)
                 THEN /\ pc' = "error"
                      /\ UNCHANGED <<g_info, node_to_contact>>
                 ELSE /\ g_info' = ContractNode(g_info, node)
                      /\ node_to_contact' =
                             SubSeq(node_to_contact, 1, i - 1)
                                \o SubSeq(node_to_contact, i + 1, Len(node_to_contact))
                      /\ pc' = IF node_to_contact' = <<>> THEN "build" ELSE "contract"
              /\ last_call' = [op |-> "contract",
                               out_of_order |-> \/ i > 1
                                                \/ /\ last_call.op = "contract"
                                                   /\ last_call.out_of_order]
    /\ UNCHANGED <<program_file, pdg_file, program_info, affordance_task_namemap,
                   full_task_namemap, task>>
    /\ UNCHANGED <<treeVars, rootVars, affVars, hydVars>>

OrderNext == LoadNameMaps \/ FixScan \/ ContractStepAnyOrder \/ BuildGraph

\* SpecOrder: the raw graphs of SpecPDG with at least two nodes to contract
\* and a node that stays (with none, every order ends with the empty graph).
InitOrder ==
    \E n \in 3..MaxNodes : \E nv \in 1..(n - 2) : \E m \in 0..MaxEdges :
        \E codes \in IncSeqs(m, 0, n * n - 1) :
            LoadInit(PdgProgramFile(n, 1..nv), PdgFile(n, codes))

SpecOrder == InitOrder /\ [][OrderNext]_vars

\* C13: whatever the order in which the nodes of the worklist were
\* contracted, once the worklist is empty the id-map and the set of edges are
\* those that fix_g_info gets in id-map insertion order.
C13_OrderIndependent ==
    WorklistEmptied =>
        LET ref == fix_g_info(pdg_file, affordance_task_namemap)
        IN  /\ ref # NoRecord
            /\ g_info.id_map = ref.id_map
            /\ Range(g_info.e) = Range(ref.e)

\* Two or more nodes were contracted in an order other than insertion
\* order, and bridged edges are left.
C13_Witness ==
    /\ pc = "done"
    /\ last_call.op = "contract" /\ last_call.out_of_order
    /\ Len(pdg_file.id_map) >= Len(g_info.id_map) + 2
    /\ \E i \in 1..Len(g_info.e) : g_info.e[i] \notin Range(pdg_file.e)

\* ------------------------------------------------ alignment by frame id
\* C14 as claimed: for every object a hydrated PrimitiveTask keeps and every
\* i in [0, n), row i of its transform is the transform recorded for frame
\* id frame_range[0] + i, for any recorded frame-id list.
C14_RowsAlignedByFrameId ==
    \A r \in DOMAIN ptasks :
        ptasks[r].instantiated =>
            \A o \in DictKeys(ptasks[r].obj_transf.dict) :
                DictGet(ptasks[r].obj_transf.dict, o).rows =
                    [i \in 1..(ptasks[r].frame_range[2] - ptasks[r].frame_range[1]) |->
                        Row(o, ptasks[r].frame_range[1] + i - 1)]

====
